---------------------------- MODULE Spec2Model ----------------------------
(***************************************************************************)
(* Model of the message-and-attachment ingestion pipeline of               *)
(* src-tauri/src/discord.rs (start_initial_indexing) together with the     *)
(* messages table of src-tauri/src/sqlite_manager.rs.                      *)
(*                                                                         *)
(* Strings whose content the code inspects (file names, content types,     *)
(* channel identifiers) are sequences of one-character strings, so that    *)
(* to_lowercase, starts_with, ends_with, Path::extension and parse::<u64>  *)
(* are computed as the code computes them.                                 *)
(***************************************************************************)
EXTENDS Integers, Sequences, FiniteSets, TLC

(***************************************************************************)
(* Bounds of the model.                                                    *)
(***************************************************************************)
\* number of failures (fetch errors other than 429, failed downloads, failed
\* commits) the environment injects in one behaviour
MaxFaults == 1
\* number of consecutive HTTP 429 answers the remote gives to one request
Max429 == 2
\* number of ingestion runs started, one after the other
MaxRuns == 1
\* the page size requested from the remote (the code asks for 100; the
\* modelled histories hold three messages in their larger channel)
PageLimit == 2

\* Option values: None is the empty sequence, Some(x) the one-element one
None == <<>>
Some(x) == <<x>>

(***************************************************************************)
(* Text helpers: str::to_lowercase, starts_with, ends_with.                *)
(***************************************************************************)
UpperChars == <<"A","B","C","D","E","F","G","H","I","J","K","L","M",
                "N","O","P","Q","R","S","T","U","V","W","X","Y","Z">>
LowerChars == <<"a","b","c","d","e","f","g","h","i","j","k","l","m",
                "n","o","p","q","r","s","t","u","v","w","x","y","z">>

ToLowerChar(c) ==
    IF \E i \in 1..Len(UpperChars) : UpperChars[i] = c
    THEN LowerChars[CHOOSE i \in 1..Len(UpperChars) : UpperChars[i] = c]
    ELSE c

to_lowercase(s) == [i \in 1..Len(s) |-> ToLowerChar(s[i])]

starts_with(s, p) ==
    /\ Len(s) >= Len(p)
    /\ SubSeq(s, 1, Len(p)) = p

ends_with(s, p) ==
    /\ Len(s) >= Len(p)
    /\ SubSeq(s, Len(s) - Len(p) + 1, Len(s)) = p

\* literals of the classification
S_image_slash == <<"i","m","a","g","e","/">>
S_image_gif   == <<"i","m","a","g","e","/","g","i","f">>
S_dot_gif     == <<".","g","i","f">>
S_dot_png     == <<".","p","n","g">>
S_dot_jpg     == <<".","j","p","g">>
S_dot_jpeg    == <<".","j","p","e","g">>
S_dot_webp    == <<".","w","e","b","p">>
S_png         == <<"p","n","g">>

(***************************************************************************)
(* The attachment classification, discord.rs lines 373-381.                *)
(***************************************************************************)
is_image_NoLower(filename, ct) ==
    \/ (ct # None /\ starts_with(ct[1], S_image_slash) /\ ct[1] # S_image_gif)
    \/ /\ ~ ends_with(filename, S_dot_gif)
       /\ \/ ends_with(filename, S_dot_png)
          \/ ends_with(filename, S_dot_jpg)
          \/ ends_with(filename, S_dot_jpeg)
          \/ ends_with(filename, S_dot_webp)

is_image(filename, ct) ==
    LET filename_lower == to_lowercase(filename)
    IN  \/ (IF ct = None THEN FALSE
            ELSE starts_with(ct[1], S_image_slash) /\ ct[1] # S_image_gif)
        \/ /\ ~ ends_with(filename_lower, S_dot_gif)
           /\ \/ ends_with(filename_lower, S_dot_png)
              \/ ends_with(filename_lower, S_dot_jpg)
              \/ ends_with(filename_lower, S_dot_jpeg)
              \/ ends_with(filename_lower, S_dot_webp)


(***************************************************************************)
(* Path::extension of the original file name (lines 390-393): the part     *)
(* after the last "." of the name, absent when there is no "." or when the *)
(* only "." is the first character.                                        *)
(***************************************************************************)
LastDot(s) ==
    IF \E i \in 1..Len(s) : s[i] = "."
    THEN CHOOSE i \in 1..Len(s) : s[i] = "." /\ \A j \in (i+1)..Len(s) : s[j] # "."
    ELSE 0

extension(filename) ==
    IF LastDot(filename) <= 1 THEN None
    ELSE Some(SubSeq(filename, LastDot(filename) + 1, Len(filename)))

\* lines 387-398: "cached/<message_id>_<attachment_id>.<extension>"
relative_path_str(message_id, attachment_meta) ==
    LET ext == extension(attachment_meta.filename)
    IN  <<"cached", message_id, attachment_meta.id,
          IF ext = None THEN S_png ELSE ext[1]>>

(***************************************************************************)
(* str::parse::<u64> of a configured channel identifier (line 303).        *)
(***************************************************************************)
DigitChars == <<"0","1","2","3","4","5","6","7","8","9">>
IsDigit(c) == \E i \in 1..10 : DigitChars[i] = c
DigitVal(c) == (CHOOSE i \in 1..10 : DigitChars[i] = c) - 1
\* u64::MAX = 18446744073709551615, digit by digit
U64MaxDigits == <<1,8,4,4,6,7,4,4,0,7,3,7,0,9,5,5,1,6,1,5>>

RECURSIVE StripZeros(_)
StripZeros(s) ==
    IF Len(s) > 1 /\ s[1] = "0" THEN StripZeros(Tail(s)) ELSE s

\* a 20-digit number exceeds u64::MAX
ExceedsU64(s) ==
    \E i \in 1..20 :
        /\ DigitVal(s[i]) > U64MaxDigits[i]
        /\ \A j \in 1..(i-1) : DigitVal(s[j]) = U64MaxDigits[j]

\* Ok(id) is Some(id), the identifier in canonical decimal digits; Err is None
parse_u64(s) ==
    LET body == IF s # <<>> /\ s[1] = "+" THEN Tail(s) ELSE s
        digits == StripZeros(body)
    IN  IF body = <<>> \/ \E i \in 1..Len(body) : ~ IsDigit(body[i]) THEN None
        ELSE IF Len(digits) > 20 \/ (Len(digits) = 20 /\ ExceedsU64(digits)) THEN None
        ELSE Some(digits)

(***************************************************************************)
(* The remote: message histories of two channels, and the attachments a    *)
(* message can carry.                                                      *)
(***************************************************************************)
F_a_jpg   == <<"a",".","j","p","g">>
F_doc_pdf == <<"d","o","c",".","p","d","f">>
T_image_jpeg == <<"i","m","a","g","e","/","j","p","e","g">>
T_application_pdf == <<"a","p","p","l","i","c","a","t","i","o","n","/","p","d","f">>

Img(n) == [id |-> n, filename |-> F_a_jpg, content_type |-> Some(T_image_jpeg)]
Pdf(n) == [id |-> n, filename |-> F_doc_pdf, content_type |-> Some(T_application_pdf)]

\* the attachment lists of the remote's messages: two images, a document
\* and an image, a document alone
AttachmentLists == << <<Img(1), Img(2)>>, <<Pdf(1), Img(2)>>, <<Pdf(1)>> >>

\* the remote holds four messages, with timestamps around the cutoff
MsgIds == {1, 2, 3, 4}
TsValues == {0, 1, 2}


\* message 1 lives in channel "2", every other message in channel "1"
ChannelOfMsg(m) == IF m = 1 THEN <<"2">> ELSE <<"1">>

\* identifiers are assigned in time order: within a channel a larger
\* identifier never has a smaller timestamp; the one message of channel "2"
\* is the oldest or the newest
Timelines ==
    { t \in [MsgIds -> TsValues] :
        /\ t[1] # 1
        /\ \A a, b \in MsgIds :
              (a < b /\ ChannelOfMsg(a) = ChannelOfMsg(b)) => t[a] <= t[b] }

\* every message carries each of the attachment lists in some history
Histories ==
    { [m \in MsgIds |->
         [timestamp |-> t[m],
          attachments |-> AttachmentLists[((m + r) % Len(AttachmentLists)) + 1]]] :
      t \in Timelines, r \in 1..Len(AttachmentLists) }

\* the configured channel lists (strings as stored in the config table)
C_1 == <<"1">>
C_2 == <<"2">>
C_x == <<"x">>
ConfigChoices == { <<>>, <<C_1, C_x, C_2>> }


(***************************************************************************)
(* State.                                                                  *)
(***************************************************************************)
VARIABLES
    history,        \* the remote: message id -> [timestamp, attachments]
    config,         \* selected_channel_ids of the config table
    db,             \* the messages table: its rows
    cache,          \* files of the cache directory: path -> "complete" | "partial"
    events,         \* events emitted to the observer
    requests,       \* page requests issued by the current run: <<channel, before>>
    runs,           \* number of background tasks started
    pc,             \* position of the background task
    start_ts,       \* cutoff of the run
    channel_ids,    \* the list the task iterates
    chanIdx,        \* position of the for loop in channel_ids
    channel_id,     \* parsed identifier of the current channel
    before_id,      \* cursor, None before the first page
    faults,         \* failures injected so far
    rate_limits,    \* consecutive 429 answers to the pending request
    msgs,           \* the rest of the sorted page still to process
    page,           \* the sorted page as fetched
    batch_data_for_db,
    reached_older_messages,
    attIdx,         \* position in the current message's attachments
    saved_filenames_for_msg,
    attachment_processing_failed,
    total_fetched_metadata,
    total_messages_processed_for_db,
    pairs_batched,  \* history of line 508: the pushes onto batches made by the run
    total_images_saved_or_found,
    att_filename,       \* an attachment's file name ...
    att_content_type,   \* ... and its optional content type,
    att_is_image,       \* None, or Some(is_image) once classified
    now,                \* Utc::now() of line 267: <<year, month, day, second of day>>
    start_utc,          \* None, or what lines 268-275 made of now
    observed,           \* None, or Some(rows) last returned by get_indexed_messages
    other,              \* None, or Some(locals) of a second task, while the other one steps
    observer,           \* "up" | "gone": whether app.emit reaches the front end or fails
    outages,            \* how often the observer has gone
    db_lock,        \* the Mutex around the connection: "free" | "held" | "poisoned"
    tx,             \* None, or Some(table as the open transaction sees it)
    tx_pos,         \* position of the transaction's for loop in the batch
    commits,        \* batches of the current page handed to the blocking task
    downloads,      \* HTTP GETs sent by download_client: path -> count
    command_result  \* None, or Some("Ok" | "Err"): what the command last returned

filterVars == <<att_filename, att_content_type, att_is_image, now, start_utc, observed,
                other, observer, outages>>
remoteVars == <<history, config>>
envVars == <<faults, rate_limits>>
taskVars == <<pc, start_ts, channel_ids, chanIdx, channel_id, before_id>>
pageVars == <<msgs, page, batch_data_for_db, reached_older_messages>>
msgVars == <<attIdx, saved_filenames_for_msg, attachment_processing_failed>>
lockVars == <<db_lock, tx, tx_pos>>
counterVars == <<total_fetched_metadata, total_messages_processed_for_db, pairs_batched,
                 total_images_saved_or_found>>
vars == <<history, config, db, cache, events, requests, runs,
          faults, rate_limits,
          pc, start_ts, channel_ids, chanIdx, channel_id, before_id,
          msgs, page, batch_data_for_db, reached_older_messages,
          attIdx, saved_filenames_for_msg, attachment_processing_failed,
          total_fetched_metadata, total_messages_processed_for_db, pairs_batched,
          total_images_saved_or_found,
          att_filename, att_content_type, att_is_image, now, start_utc, observed, other,
          observer, outages,
          db_lock, tx, tx_pos, commits, downloads, command_result>>

\* the cutoff computed at the start of a run (lines 267-275), in the
\* model's time scale
CutoffTs == 1

\* app.emit(name, payload).unwrap_or_default(): the observer receives the
\* event, or the emission fails and the error is dropped; the statement that
\* follows is reached either way
received(E) == IF observer = "up" THEN E ELSE {}
emit_Propagates(E) == observer = "up" /\ events' = events \cup E
emit(E) == events' = events \cup received(E)

\* nothing is stored and no task has been started
Idle ==
    /\ db = {}
    /\ cache = [f \in {} |-> None]
    /\ events = {}
    /\ requests = {}
    /\ runs = 0
    /\ pc = "idle"
    /\ start_ts = 0
    /\ channel_ids = <<>>
    /\ chanIdx = 0
    /\ channel_id = None
    /\ before_id = None
    /\ faults = 0
    /\ rate_limits = 0
    /\ msgs = <<>>
    /\ page = <<>>
    /\ batch_data_for_db = <<>>
    /\ reached_older_messages = FALSE
    /\ attIdx = 0
    /\ saved_filenames_for_msg = <<>>
    /\ attachment_processing_failed = FALSE
    /\ total_fetched_metadata = 0
    /\ total_messages_processed_for_db = 0
    /\ pairs_batched = 0
    /\ total_images_saved_or_found = 0
    /\ db_lock = "free"
    /\ tx = None
    /\ tx_pos = 0
    /\ commits = 0
    /\ downloads = [f \in {} |-> 0]
    /\ command_result = None

Init ==
    /\ history \in Histories
    /\ config \in ConfigChoices
    /\ Idle
    /\ att_filename = <<>>
    /\ att_content_type = None
    /\ att_is_image = None
    /\ now = None
    /\ start_utc = None
    /\ observed = None
    /\ other = None
    /\ observer = "up"
    /\ outages = 0

(***************************************************************************)
(* The remote's "messages strictly before" primitive and the page sort.    *)
(***************************************************************************)
Message(m) ==
    [id |-> m, channel_id |-> ChannelOfMsg(m),
     timestamp |-> history[m].timestamp, attachments |-> history[m].attachments]

\* identifiers of the channel strictly before the cursor
Older(channel, before) ==
    { m \in MsgIds : ChannelOfMsg(m) = channel /\ (before = None \/ m < before[1]) }

\* the elements of a set of identifiers, newest (largest) first
RECURSIVE Descending(_)
Descending(S) ==
    IF S = {} THEN <<>>
    ELSE LET top == CHOOSE m \in S : \A n \in S : n <= m
         IN  <<top>> \o Descending(S \ {top})

\* get_messages(channel_id, pagination, Some(100)), lines 326-329
get_messages(channel, before, limit) ==
    LET all == Descending(Older(channel, before))
    IN  [i \in 1..(IF Len(all) < limit THEN Len(all) ELSE limit) |-> Message(all[i])]

\* msgs.sort_by_key(|m| m.timestamp), line 348 (a stable sort): an element
\* comes after those of smaller timestamp and after the earlier ones of the
\* same timestamp
sort_by_timestamp(s) ==
    LET rank(i) ==
            Cardinality({ j \in 1..Len(s) :
                            \/ s[j].timestamp < s[i].timestamp
                            \/ s[j].timestamp = s[i].timestamp /\ j < i }) + 1
    IN  [k \in 1..Len(s) |-> s[CHOOSE i \in 1..Len(s) : rank(i) = k]]


(***************************************************************************)
(* The command start_initial_indexing, lines 226-291 and 623: it reads the *)
(* token and the configuration, computes the cutoff and spawns the task.   *)
(***************************************************************************)
no_channels_selected_Never(selected_channel_ids) == FALSE

\* config.selected_channel_ids.is_empty(), line 257
no_channels_selected(selected_channel_ids) == selected_channel_ids = <<>>

StartRun(max_runs) ==
    /\ pc \in {"idle", "done", "crashed"}
    /\ runs < max_runs
    /\ \E setup_ok \in (IF db_lock = "poisoned" THEN {FALSE} ELSE BOOLEAN) :
        IF ~ setup_ok
        THEN \* lines 233-256 and 281: the token, the storage lock (poisoned),
             \* the configuration or the cache directory cannot be had; Err(..)
             \* is returned and nothing is started
             /\ command_result' = Some("Err")
             /\ UNCHANGED <<events, requests, runs, taskVars, pageVars, msgVars,
                            counterVars, commits>>
        ELSE IF no_channels_selected(config)
        THEN \* lines 257-263
             /\ events' = received({<<"indexing-status", <<"No channels selected">>>>})
             /\ command_result' = Some("Ok")
             /\ UNCHANGED <<requests, runs, taskVars, pageVars, msgVars, counterVars,
                            commits>>
        ELSE \* lines 264-300 and 623: a new task with fresh locals; events
             \* and requests are those of the newest task
             /\ command_result' = Some("Ok")
             /\ commits' = 0
             /\ runs' = runs + 1
             /\ channel_ids' = config
             /\ start_ts' = CutoffTs
             /\ total_fetched_metadata' = 0
             /\ total_messages_processed_for_db' = 0
             /\ pairs_batched' = 0
             /\ total_images_saved_or_found' = 0
             /\ chanIdx' = 1
             /\ pc' = "chan"
             /\ events' = {}
             /\ requests' = {}
             /\ channel_id' = None
             /\ before_id' = None
             /\ msgs' = <<>>
             /\ page' = <<>>
             /\ batch_data_for_db' = <<>>
             /\ reached_older_messages' = FALSE
             /\ attIdx' = 0
             /\ saved_filenames_for_msg' = <<>>
             /\ attachment_processing_failed' = FALSE
    /\ UNCHANGED <<remoteVars, filterVars, lockVars, downloads, envVars, db, cache>>

Start == StartRun(MaxRuns)

(***************************************************************************)
(* Head of the for loop over channel_ids, lines 302-324, and the end of    *)
(* the task, lines 608-620.                                                *)
(***************************************************************************)
skip_invalid_channel_Aborts ==
    /\ pc' = "done"
    /\ UNCHANGED chanIdx

\* continue, line 313: the for loop takes the next identifier
skip_invalid_channel ==
    /\ pc' = "chan"
    /\ chanIdx' = chanIdx + 1

NextChannel ==
    /\ pc = "chan"
    /\ IF chanIdx > Len(channel_ids)
       THEN /\ emit({<<"indexing-complete", <<total_messages_processed_for_db>>>>})
            /\ pc' = "done"
            /\ UNCHANGED <<chanIdx, channel_id, before_id>>
       ELSE IF parse_u64(channel_ids[chanIdx]) = None
       THEN /\ emit({<<"indexing-error", <<"Invalid channel ID", channel_ids[chanIdx]>>>>})
            /\ skip_invalid_channel
            /\ UNCHANGED <<channel_id, before_id>>
       ELSE /\ channel_id' = parse_u64(channel_ids[chanIdx])[1]
            /\ emit({<<"indexing-status", <<"Starting to fetch channel", channel_id'>>>>})
            /\ before_id' = None
            /\ pc' = "fetch"
            /\ UNCHANGED chanIdx
    /\ UNCHANGED <<remoteVars, filterVars, lockVars, commits, downloads, command_result, envVars, db, cache, requests, runs, start_ts, channel_ids,
                   pageVars, msgVars, counterVars>>

break_message_loop_Retries ==
    /\ pc' = "fetch"
    /\ UNCHANGED chanIdx

\* break 'message_loop: the for loop goes on to the next channel (line 605)
break_message_loop_Returns ==
    /\ pc' = "stopped"
    /\ UNCHANGED chanIdx
break_message_loop ==
    /\ pc' = "chan"
    /\ chanIdx' = chanIdx + 1

new_batch_Carried(previous) == previous

\* let mut batch_data_for_db = Vec::new(), lines 353-356: each page starts
\* an empty batch
new_batch(previous) == <<>>

next_cursor_Kept(before, sorted) == before

\* the cursor recorded from a sorted page, lines 349-351
next_cursor(before, sorted) ==
    IF sorted # <<>> THEN Some(sorted[1].id) ELSE before

(***************************************************************************)
(* One page request, lines 326-357 and 584-602.                            *)
(***************************************************************************)
FetchOk ==
    /\ pc = "fetch"
    /\ requests' = requests \cup {<<channel_id, before_id>>}
    /\ \E fetched \in {get_messages(channel_id, before_id, PageLimit)} :
       \E sorted \in {sort_by_timestamp(fetched)} :
           IF fetched = <<>>
           THEN /\ break_message_loop
                /\ UNCHANGED <<events, before_id, pageVars, total_fetched_metadata,
                               commits>>
           ELSE /\ total_fetched_metadata' = total_fetched_metadata + Len(fetched)
                /\ commits' = 0
                /\ emit({<<"indexing-progress", <<total_fetched_metadata'>>>>})
                /\ before_id' = next_cursor(before_id, sorted)
                /\ page' = sorted
                /\ msgs' = sorted
                /\ batch_data_for_db' = new_batch(batch_data_for_db)
                /\ reached_older_messages' = FALSE
                /\ pc' = "msg"
                /\ UNCHANGED chanIdx
    /\ rate_limits' = 0
    /\ UNCHANGED <<remoteVars, filterVars, lockVars, downloads, command_result, faults, db, cache, runs, start_ts, channel_ids, channel_id,
                   msgVars, total_messages_processed_for_db, pairs_batched, total_images_saved_or_found>>

rate_limited_Breaks == break_message_loop

\* after a 429 answer the task sleeps and repeats the request (lines 592-599)
rate_limited ==
    /\ pc' = "wait"
    /\ UNCHANGED chanIdx

FetchErr ==
    /\ pc = "fetch"
    /\ requests' = requests \cup {<<channel_id, before_id>>}
    /\ \E status \in {429, 500} :
        /\ emit({<<"indexing-error", <<"Fetch Error", channel_id, status>>>>}
                \cup IF status = 429
                     THEN {<<"indexing-status", <<"Rate limited, waiting...">>>>}
                     ELSE {})
        /\ IF status = 429
           THEN /\ rate_limits < Max429
                /\ rate_limits' = rate_limits + 1
                /\ rate_limited
                /\ UNCHANGED faults
           ELSE /\ faults < MaxFaults
                /\ faults' = faults + 1
                /\ break_message_loop
                /\ rate_limits' = 0
    /\ UNCHANGED <<remoteVars, filterVars, lockVars, commits, downloads, command_result, db, cache, runs, start_ts, channel_ids, channel_id, before_id,
                   pageVars, msgVars, counterVars>>

\* sleep(Duration::from_secs(5)) is over: continue, line 598
Wait ==
    /\ pc = "wait"
    /\ pc' = "fetch"
    /\ UNCHANGED <<remoteVars, filterVars, lockVars, commits, downloads, command_result, envVars, db, cache, events, requests, runs, start_ts,
                   channel_ids, chanIdx, channel_id, before_id, pageVars, msgVars,
                   counterVars>>


(***************************************************************************)
(* The loop over the messages of a page, lines 359-368.                    *)
(***************************************************************************)
older_than_cutoff_Reversed(msg) == msg.timestamp > start_ts

\* line 360: the message is older than the cutoff
older_than_cutoff(msg) == msg.timestamp < start_ts

\* line 362: `continue` goes on with the rest of the page
skip_older_Breaks(ms) == <<>>
skip_older(ms) == Tail(ms)

ProcessMessage ==
    /\ pc = "msg"
    /\ msgs # <<>>
    /\ LET msg == Head(msgs)
       IN  IF older_than_cutoff(msg)
           THEN /\ reached_older_messages' = TRUE
                /\ msgs' = skip_older(msgs)
                /\ UNCHANGED <<pc, msgVars>>
           ELSE /\ saved_filenames_for_msg' = <<>>
                /\ attachment_processing_failed' = FALSE
                /\ attIdx' = 1
                /\ pc' = "att"
                /\ UNCHANGED <<msgs, reached_older_messages>>
    /\ UNCHANGED <<remoteVars, filterVars, lockVars, commits, downloads, command_result, envVars, db, cache, events, requests, runs, start_ts,
                   channel_ids, chanIdx, channel_id, before_id, page, batch_data_for_db,
                   counterVars>>

(***************************************************************************)
(* One attachment of the current message, lines 370-505.                   *)
(***************************************************************************)
CurrentMsg == Head(msgs)
CurrentAtt == CurrentMsg.attachments[attIdx]
InAttachmentLoop ==
    /\ pc = "att"
    /\ ~ attachment_processing_failed
    /\ attIdx <= Len(CurrentMsg.attachments)

path_exists_Never(path) == FALSE

\* path_check.exists(), lines 408-413 (the blocking task of the check itself
\* is taken not to fail)
path_exists(path) == path \in DOMAIN cache

write_file_Elsewhere(path, content) == cache

\* fs::write(&path_clone, &image_bytes), line 447
write_file(path, content) ==
    [f \in DOMAIN cache \cup {path} |-> IF f = path THEN content ELSE cache[f]]

\* lines 383-385 and 415-420: no download
AttachmentNoDownload ==
    /\ InAttachmentLoop
    /\ LET path == relative_path_str(CurrentMsg.id, CurrentAtt)
       IN  IF ~ is_image(CurrentAtt.filename, CurrentAtt.content_type)
           THEN UNCHANGED <<saved_filenames_for_msg, total_images_saved_or_found>>
           ELSE /\ path_exists(path)
                /\ saved_filenames_for_msg' = Append(saved_filenames_for_msg, path)
                /\ total_images_saved_or_found' = total_images_saved_or_found + 1
    /\ attIdx' = attIdx + 1
    /\ UNCHANGED <<remoteVars, filterVars, lockVars, commits, downloads, command_result, envVars, db, cache, events, requests, runs, taskVars,
                   pageVars, attachment_processing_failed, total_fetched_metadata,
                   total_messages_processed_for_db,
                   pairs_batched>>

\* lines 399-406: the cache directory of a qualifying attachment cannot be
\* resolved
AttachmentCacheDirError ==
    /\ InAttachmentLoop
    /\ is_image(CurrentAtt.filename, CurrentAtt.content_type)
    /\ faults < MaxFaults
    /\ faults' = faults + 1
    /\ attachment_processing_failed' = TRUE
    /\ UNCHANGED <<remoteVars, filterVars, lockVars, commits, downloads, command_result, rate_limits, db, cache, events, requests, runs,
                   taskVars, pageVars, attIdx, saved_filenames_for_msg, counterVars>>

\* download_client.get(&attachment_meta.url).send(), line 434: one more
\* request for the file of this path
http_get(path) ==
    [f \in DOMAIN downloads \cup {path} |->
        IF f = path THEN (IF f \in DOMAIN downloads THEN downloads[f] + 1 ELSE 1)
        ELSE downloads[f]]

\* what the download of one attachment does to the message being assembled,
\* lines 434-504, by outcome
DownloadOutcomes ==
    {"saved", "send_error", "bad_status", "bytes_error", "write_error", "write_task_failed"}

download_fails_message(outcome) ==
    outcome \in {"send_error", "bytes_error", "write_error", "write_task_failed"}

\* lines 408-432: the file is not there; the download is announced
AttachmentCheckAbsent ==
    /\ InAttachmentLoop
    /\ is_image(CurrentAtt.filename, CurrentAtt.content_type)
    /\ ~ path_exists(relative_path_str(CurrentMsg.id, CurrentAtt))
    /\ emit({<<"indexing-status",
               <<"Downloading", CurrentAtt.filename, total_images_saved_or_found>>>>})
    /\ pc' = "dl"
    /\ UNCHANGED <<remoteVars, filterVars, lockVars, commits, downloads, command_result,
                   envVars, db, cache, requests, runs, start_ts, channel_ids, chanIdx,
                   channel_id, before_id, pageVars, msgVars, counterVars>>

\* lines 434-504: the request, the body and the write of the file
AttachmentDownload ==
    /\ pc = "dl"
    /\ pc' = "att"
    /\ LET path == relative_path_str(CurrentMsg.id, CurrentAtt)
       IN  /\ downloads' = http_get(path)
           /\ \E outcome \in DownloadOutcomes :
                IF outcome = "saved"
                THEN /\ cache' = write_file(path, "complete")
                     /\ saved_filenames_for_msg' = Append(saved_filenames_for_msg, path)
                     /\ total_images_saved_or_found' = total_images_saved_or_found + 1
                     /\ attIdx' = attIdx + 1
                     /\ UNCHANGED <<attachment_processing_failed, faults>>
                ELSE IF download_fails_message(outcome)
                THEN /\ faults < MaxFaults
                     /\ faults' = faults + 1
                     /\ attachment_processing_failed' = TRUE
                     \* a failed write may leave a truncated file behind
                     /\ \/ UNCHANGED cache
                        \/ outcome = "write_error" /\ cache' = write_file(path, "partial")
                     /\ UNCHANGED <<saved_filenames_for_msg, total_images_saved_or_found,
                                    attIdx>>
                ELSE \* lines 488-494: the status is logged, the loop goes on
                     /\ faults < MaxFaults
                     /\ faults' = faults + 1
                     /\ attIdx' = attIdx + 1
                     /\ UNCHANGED <<cache, saved_filenames_for_msg,
                                    total_images_saved_or_found,
                                    attachment_processing_failed>>
    /\ UNCHANGED <<remoteVars, filterVars, lockVars, commits, command_result,
                   rate_limits, db, events, requests, runs, start_ts, channel_ids,
                   chanIdx, channel_id, before_id, pageVars,
                   total_fetched_metadata, total_messages_processed_for_db,
                   pairs_batched>>

\* lines 507-522: the message joins the batch, or is dropped
\* line 507: the condition under which the message joins the batch
keeps_message_AllowsEmpty(failed, saved) == ~ failed
keeps_message(failed, saved) == ~ failed /\ saved # <<>>

\* line 509: the counter moves with the push, before any commit
count_after_push_Skipped(n) == n
count_after_push(n) == n + 1

FinishMessage ==
    /\ pc = "att"
    /\ attachment_processing_failed \/ attIdx > Len(CurrentMsg.attachments)
    /\ IF keeps_message(attachment_processing_failed, saved_filenames_for_msg)
       THEN /\ batch_data_for_db' =
                  Append(batch_data_for_db,
                         [msg |-> CurrentMsg, filenames |-> saved_filenames_for_msg])
            /\ total_messages_processed_for_db' =
                  count_after_push(total_messages_processed_for_db)
            /\ pairs_batched' = pairs_batched + 1
            /\ UNCHANGED events
       ELSE IF attachment_processing_failed
       THEN /\ emit({<<"indexing-error",
                       <<"Failed to process attachments for message", CurrentMsg.id>>>>})
            /\ UNCHANGED <<batch_data_for_db, total_messages_processed_for_db,
                           pairs_batched>>
       ELSE UNCHANGED <<events, batch_data_for_db, total_messages_processed_for_db,
                       pairs_batched>>
    /\ msgs' = Tail(msgs)
    /\ pc' = "msg"
    /\ UNCHANGED <<remoteVars, filterVars, lockVars, commits, downloads, command_result, envVars, db, cache, requests, runs, start_ts, channel_ids,
                   chanIdx, channel_id, before_id, page, reached_older_messages, msgVars,
                   total_fetched_metadata, total_images_saved_or_found>>

(***************************************************************************)
(* The commit of the page's batch, lines 525-577, and the end of the loop  *)
(* body, lines 579-582.                                                    *)
(***************************************************************************)
\* the row the INSERT writes (lines 542-547); is_used takes the table's
\* DEFAULT 0 (sqlite_manager.rs line 57)
row_of(entry) ==
    [message_id |-> entry.msg.id, channel_id |-> entry.msg.channel_id,
     attachments |-> entry.filenames, timestamp |-> entry.msg.timestamp,
     is_used |-> FALSE]

insert_or_replace(table, row) ==
    {r \in table : r.message_id # row.message_id} \cup {row}

\* INSERT OR IGNORE: a row whose primary key message_id is taken is ignored
insert_or_ignore(table, row) ==
    IF \E r \in table : r.message_id = row.message_id THEN table
    ELSE table \cup {row}

\* the for loop of the transaction, lines 539-548
RECURSIVE insert_batch(_, _)
insert_batch(table, batch) ==
    IF batch = <<>> THEN table
    ELSE insert_batch(insert_or_ignore(table, row_of(Head(batch))), Tail(batch))

end_of_page_AlwaysContinue == pc' = "fetch" /\ UNCHANGED chanIdx

end_of_page_RoundRobin ==
    /\ pc' = "chan"
    /\ chanIdx' = IF chanIdx < Len(channel_ids) THEN chanIdx + 1 ELSE 1

\* lines 579-582: the end of the loop body
end_of_page ==
    IF reached_older_messages
    THEN break_message_loop
    ELSE pc' = "fetch" /\ UNCHANGED chanIdx

\* the loop over the page is over (line 523); an empty batch skips the commit
EndOfPage ==
    /\ pc = "msg"
    /\ msgs = <<>>
    /\ IF batch_data_for_db # <<>>
       THEN pc' = "commit" /\ UNCHANGED chanIdx
       ELSE end_of_page
    /\ UNCHANGED <<remoteVars, filterVars, lockVars, commits, downloads, command_result, envVars, db, cache, events, requests, runs, start_ts,
                   channel_ids, channel_id, before_id, pageVars, msgVars, counterVars>>

CommitOutcomes == {"committed", "tx_error", "task_failed"}

lock_release_Kept == "held"

\* conn_guard goes out of scope at the end of the closure, line 551
lock_release == "free"

tx_drop_Commits(table, pending) == pending

\* tx is dropped without commit() (a `?` return of lines 530-549, a failed
\* commit, a panic): the Transaction rolls back
tx_drop(table, pending) == table

report_insert_error_Silent(kind) == {}

\* app_block.emit("indexing-error", ..), lines 563-565 and 572-574
report_insert_error(kind) == {<<"indexing-error", <<kind>>>>}

\* lines 526-537: the batch goes to a blocking task, which locks the
\* connection, begins the transaction and prepares the statement
BeginTx ==
    /\ pc = "commit"
    /\ db_lock # "held"
    /\ commits' = commits + 1
    /\ \E outcome \in CommitOutcomes :
        IF db_lock = "free" /\ outcome = "committed"
        THEN /\ db_lock' = "held"
             /\ tx' = Some(db)
             /\ tx_pos' = 1
             /\ pc' = "tx"
             /\ UNCHANGED <<chanIdx, events, faults>>
        ELSE \* the lock is poisoned (line 530), or transaction() or
             \* prepare_cached() fails: the closure returns Err
             /\ outcome = "tx_error"
             /\ IF db_lock = "poisoned"
                THEN UNCHANGED faults
                ELSE faults < MaxFaults /\ faults' = faults + 1
             /\ emit(report_insert_error("DB Error"))
             /\ end_of_page
             /\ UNCHANGED lockVars
    /\ UNCHANGED <<remoteVars, filterVars, downloads, command_result, rate_limits, db, cache,
                   requests, runs, start_ts, channel_ids, channel_id, before_id,
                   pageVars, msgVars, counterVars>>

\* the transaction ends without commit: the error goes to the task, which
\* reports it (lines 554-577); a panic of the blocking task poisons the lock
TxAbort(outcome) ==
    /\ faults < MaxFaults
    /\ faults' = faults + 1
    /\ db' = tx_drop(db, tx[1])
    /\ tx' = None
    /\ tx_pos' = 0
    /\ db_lock' = IF outcome = "task_failed" THEN "poisoned" ELSE lock_release
    /\ emit(report_insert_error(IF outcome = "tx_error" THEN "DB Error" ELSE "Task Error"))
    /\ end_of_page

\* one turn of the for loop of the transaction, lines 539-548
TxInsert ==
    /\ pc = "tx"
    /\ tx_pos <= Len(batch_data_for_db)
    /\ \E outcome \in CommitOutcomes :
        IF outcome = "committed"
        THEN /\ tx' = Some(insert_or_ignore(tx[1], row_of(batch_data_for_db[tx_pos])))
             /\ tx_pos' = tx_pos + 1
             /\ UNCHANGED <<db, db_lock, events, faults, pc, chanIdx>>
        ELSE TxAbort(outcome)
    /\ UNCHANGED <<remoteVars, filterVars, commits, downloads, command_result, rate_limits, cache,
                   requests, runs, start_ts, channel_ids, channel_id, before_id,
                   pageVars, msgVars, counterVars>>

\* tx.commit(), line 550, the end of the closure and the match on its
\* result, lines 554-577
TxCommit ==
    /\ pc = "tx"
    /\ tx_pos > Len(batch_data_for_db)
    /\ \E outcome \in CommitOutcomes :
        IF outcome = "committed"
        THEN /\ db' = tx[1]
             /\ tx' = None
             /\ tx_pos' = 0
             /\ db_lock' = lock_release
             /\ end_of_page
             /\ UNCHANGED <<events, faults>>
        ELSE TxAbort(outcome)
    /\ UNCHANGED <<remoteVars, filterVars, commits, downloads, command_result, rate_limits, cache,
                   requests, runs, start_ts, channel_ids, channel_id, before_id,
                   pageVars, msgVars, counterVars>>

Next ==
    \/ Start
    \/ NextChannel
    \/ FetchOk
    \/ FetchErr
    \/ Wait
    \/ ProcessMessage
    \/ AttachmentNoDownload
    \/ AttachmentCacheDirError
    \/ AttachmentCheckAbsent
    \/ AttachmentDownload
    \/ FinishMessage
    \/ EndOfPage
    \/ BeginTx
    \/ TxInsert
    \/ TxCommit

Spec == Init /\ [][Next]_vars

\* the steps of the spawned task (lines 291-621): tokio polls a task that is
\* ready, so the task is not held up forever while one of its steps can be
\* taken
TaskNext ==
    \/ NextChannel
    \/ FetchOk
    \/ FetchErr
    \/ Wait
    \/ ProcessMessage
    \/ AttachmentNoDownload
    \/ AttachmentCacheDirError
    \/ AttachmentCheckAbsent
    \/ AttachmentDownload
    \/ FinishMessage
    \/ EndOfPage
    \/ BeginTx
    \/ TxInsert
    \/ TxCommit

\* liveness and the concurrent commands are checked for the configured
\* channel list and the histories
\* in which each channel's newest message is in the window and channel
\* "1" also holds a message at the cutoff and one older than the cutoff
MixedRemote ==
    /\ config # <<>>
    /\ history[1].timestamp >= CutoffTs
    /\ history[4].timestamp >= CutoffTs
    /\ history[3].timestamp = CutoffTs
    /\ history[2].timestamp < CutoffTs

MixedInit == Init /\ MixedRemote

\* for liveness, moreover, the newest message carries two images
FairInit == Init /\ MixedRemote /\ history[4].attachments = AttachmentLists[1]

FairSpec == FairInit /\ [][Next]_vars /\ WF_vars(TaskNext)

(***************************************************************************)
(* The command get_indexed_messages, sqlite_manager.rs lines 468-492, run   *)
(* while the task is at work: it takes the mutex of the one connection and  *)
(* selects every row.                                                       *)
(***************************************************************************)
\* lines 472-475: db_state.0.lock() returns once no one holds the mutex
reader_may_run_Unlocked == TRUE
reader_may_run == db_lock = "free"

\* what a SELECT on the connection returns: inside an open transaction the
\* connection sees the rows it has inserted so far
connection_view == IF tx # None THEN tx[1] ELSE db

get_indexed_messages ==
    /\ reader_may_run
    /\ runs > 0
    /\ observed' = Some(connection_view)
    /\ UNCHANGED <<remoteVars, envVars, db, cache, events, requests, runs, taskVars,
                   pageVars, msgVars, counterVars, att_filename, att_content_type,
                   att_is_image, now, start_utc, other, observer, outages, lockVars,
                   commits, downloads,
                   command_result>>

\* the task with the reading command beside it
ReaderNext == Next \/ get_indexed_messages

ReaderSpec == MixedInit /\ [][ReaderNext]_vars

(***************************************************************************)
(* The run interrupted: the process dies at any point of the task.  The    *)
(* task's locals and the lock die with it; the table keeps what was        *)
(* committed, the open transaction is rolled back when the database file   *)
(* is opened again, and a file being written may be left truncated.        *)
(***************************************************************************)
crash_recovery_KeepsPending(table, pending) ==
    IF pending = None THEN table ELSE pending[1]

\* the rows of the table after the interruption: tx.commit() (line 550) is
\* the only point at which the writes of lines 539-548 become durable
crash_recovery(table, pending) == table

Crash ==
    /\ pc \notin {"idle", "done", "crashed"}
    \* the interruption is one of the failures injected
    /\ faults < MaxFaults
    /\ faults' = faults + 1
    /\ pc' = "crashed"
    /\ db' = crash_recovery(db, tx)
    /\ \/ UNCHANGED <<cache, downloads>>
       \/ /\ pc = "dl"
          /\ downloads' = http_get(relative_path_str(CurrentMsg.id, CurrentAtt))
          /\ cache' = write_file(relative_path_str(CurrentMsg.id, CurrentAtt), "partial")
    /\ db_lock' = "free"
    /\ tx' = None
    /\ tx_pos' = 0
    /\ start_ts' = 0
    /\ channel_ids' = <<>>
    /\ chanIdx' = 0
    /\ channel_id' = None
    /\ before_id' = None
    /\ rate_limits' = 0
    /\ msgs' = <<>>
    /\ page' = <<>>
    /\ batch_data_for_db' = <<>>
    /\ reached_older_messages' = FALSE
    /\ attIdx' = 0
    /\ saved_filenames_for_msg' = <<>>
    /\ attachment_processing_failed' = FALSE
    /\ total_fetched_metadata' = 0
    /\ total_messages_processed_for_db' = 0
    /\ pairs_batched' = 0
    /\ total_images_saved_or_found' = 0
    /\ commits' = 0
    \* the observer is the window of the same process
    /\ events' = {}
    /\ requests' = {}
    /\ command_result' = None
    /\ UNCHANGED <<remoteVars, filterVars, runs>>

CrashNext == Next \/ Crash

CrashSpec == Init /\ [][CrashNext]_vars

(***************************************************************************)
(* Runs repeated over the same history and cache, with no failure injected *)
(* (the budget of failures is spent from the start).                       *)
(***************************************************************************)
MaxReruns == 2

RerunInit ==
    /\ history \in Histories
    /\ config \in ConfigChoices
    /\ db = {}
    /\ cache = [f \in {} |-> None]
    /\ events = {}
    /\ requests = {}
    /\ runs = 0
    /\ pc = "idle"
    /\ start_ts = 0
    /\ channel_ids = <<>>
    /\ chanIdx = 0
    /\ channel_id = None
    /\ before_id = None
    /\ faults = MaxFaults
    /\ rate_limits = Max429
    /\ msgs = <<>>
    /\ page = <<>>
    /\ batch_data_for_db = <<>>
    /\ reached_older_messages = FALSE
    /\ attIdx = 0
    /\ saved_filenames_for_msg = <<>>
    /\ attachment_processing_failed = FALSE
    /\ total_fetched_metadata = 0
    /\ total_messages_processed_for_db = 0
    /\ pairs_batched = 0
    /\ total_images_saved_or_found = 0
    /\ db_lock = "free"
    /\ tx = None
    /\ tx_pos = 0
    /\ commits = 0
    /\ downloads = [f \in {} |-> 0]
    /\ command_result = None
    /\ att_filename = <<>>
    /\ att_content_type = None
    /\ att_is_image = None
    /\ now = None
    /\ start_utc = None
    /\ observed = None
    /\ other = None
    /\ observer = "up"
    /\ outages = 0

Restart == StartRun(MaxReruns)

RerunNext ==
    \/ Restart
    \/ NextChannel
    \/ FetchOk
    \/ ProcessMessage
    \/ AttachmentNoDownload
    \/ AttachmentCheckAbsent
    \/ AttachmentDownload
    \/ FinishMessage
    \/ EndOfPage
    \/ BeginTx
    \/ TxInsert
    \/ TxCommit

RerunSpec == RerunInit /\ [][RerunNext]_vars

(***************************************************************************)
(* Two tasks at once: the command has no guard against a run in progress    *)
(* (lines 226-291 test nothing of the kind), so a second invocation spawns   *)
(* a second task with locals of its own (line 291, async move) beside the    *)
(* first.  The variables of the task hold the locals of the task that takes  *)
(* the next step; the locals of the other one rest in `other`.  The table,   *)
(* the cache, the mutex, the remote and the observer are shared.             *)
(***************************************************************************)
Locals ==
    [pc |-> pc, start_ts |-> start_ts, channel_ids |-> channel_ids, chanIdx |-> chanIdx,
     channel_id |-> channel_id, before_id |-> before_id, rate_limits |-> rate_limits,
     msgs |-> msgs, page |-> page, batch_data_for_db |-> batch_data_for_db,
     reached_older_messages |-> reached_older_messages,
     attIdx |-> attIdx, saved_filenames_for_msg |-> saved_filenames_for_msg,
     attachment_processing_failed |-> attachment_processing_failed,
     total_fetched_metadata |-> total_fetched_metadata,
     total_messages_processed_for_db |-> total_messages_processed_for_db,
     pairs_batched |-> pairs_batched,
     total_images_saved_or_found |-> total_images_saved_or_found,
     tx |-> tx, tx_pos |-> tx_pos, commits |-> commits]

\* lines 226-300 invoked while a task is at work: the command waits for the
\* mutex to read the configuration (lines 250-256) and spawns a task
StartConcurrent ==
    /\ pc \notin {"idle", "done", "crashed"}
    /\ other = None
    /\ db_lock = "free"
    /\ ~ no_channels_selected(config)
    /\ other' = Some(Locals)
    /\ command_result' = Some("Ok")
    /\ runs' = runs + 1
    /\ channel_ids' = config
    /\ start_ts' = CutoffTs
    /\ total_fetched_metadata' = 0
    /\ total_messages_processed_for_db' = 0
    /\ pairs_batched' = 0
    /\ total_images_saved_or_found' = 0
    /\ chanIdx' = 1
    /\ pc' = "chan"
    /\ channel_id' = None
    /\ before_id' = None
    /\ msgs' = <<>>
    /\ page' = <<>>
    /\ batch_data_for_db' = <<>>
    /\ reached_older_messages' = FALSE
    /\ attIdx' = 0
    /\ saved_filenames_for_msg' = <<>>
    /\ attachment_processing_failed' = FALSE
    /\ tx' = None
    /\ tx_pos' = 0
    /\ commits' = 0
    /\ UNCHANGED <<remoteVars, att_filename, att_content_type, att_is_image, now,
                   start_utc, observed, observer, outages, db_lock, downloads, faults, rate_limits, db,
                   cache, events, requests>>

\* the scheduler lets the other task take the next steps
Switch ==
    /\ other # None
    /\ other' = Some(Locals)
    /\ pc' = other[1].pc
    /\ start_ts' = other[1].start_ts
    /\ channel_ids' = other[1].channel_ids
    /\ chanIdx' = other[1].chanIdx
    /\ channel_id' = other[1].channel_id
    /\ before_id' = other[1].before_id
    /\ rate_limits' = other[1].rate_limits
    /\ msgs' = other[1].msgs
    /\ page' = other[1].page
    /\ batch_data_for_db' = other[1].batch_data_for_db
    /\ reached_older_messages' = other[1].reached_older_messages
    /\ attIdx' = other[1].attIdx
    /\ saved_filenames_for_msg' = other[1].saved_filenames_for_msg
    /\ attachment_processing_failed' = other[1].attachment_processing_failed
    /\ total_fetched_metadata' = other[1].total_fetched_metadata
    /\ total_messages_processed_for_db' = other[1].total_messages_processed_for_db
    /\ pairs_batched' = other[1].pairs_batched
    /\ total_images_saved_or_found' = other[1].total_images_saved_or_found
    /\ tx' = other[1].tx
    /\ tx_pos' = other[1].tx_pos
    /\ commits' = other[1].commits
    /\ UNCHANGED <<remoteVars, att_filename, att_content_type, att_is_image, now,
                   start_utc, observed, observer, outages, db_lock, downloads, command_result, faults, db,
                   cache, events, requests, runs>>

\* two runs without failures
TwoRunInit == RerunInit /\ MixedRemote

TwoRunNext ==
    \/ Start
    \/ StartConcurrent
    \/ Switch
    \/ NextChannel
    \/ FetchOk
    \/ ProcessMessage
    \/ AttachmentNoDownload
    \/ AttachmentCheckAbsent
    \/ AttachmentDownload
    \/ FinishMessage
    \/ EndOfPage
    \/ BeginTx
    \/ TxInsert
    \/ TxCommit

TwoRunSpec == TwoRunInit /\ [][TwoRunNext]_vars

(***************************************************************************)
(* The observer failing: app.emit returns an error while the front end      *)
(* does not take events.  A run without other failures, during which the    *)
(* observer goes and comes back.                                            *)
(***************************************************************************)
MaxOutages == 1

ObserverGone ==
    /\ observer = "up"
    /\ outages < MaxOutages
    /\ runs > 0 /\ pc # "done"
    /\ observer' = "gone"
    /\ outages' = outages + 1
    /\ UNCHANGED <<remoteVars, envVars, db, cache, events, requests, runs, taskVars,
                   pageVars, msgVars, counterVars, att_filename, att_content_type,
                   att_is_image, now, start_utc, observed, other, lockVars, commits,
                   downloads, command_result>>

ObserverBack ==
    /\ observer = "gone"
    /\ observer' = "up"
    /\ UNCHANGED <<remoteVars, envVars, db, cache, events, requests, runs, taskVars,
                   pageVars, msgVars, counterVars, att_filename, att_content_type,
                   att_is_image, now, start_utc, observed, other, outages, lockVars,
                   commits, downloads, command_result>>

\* the steps of the task when nothing fails
QuietTaskNext ==
    \/ NextChannel
    \/ FetchOk
    \/ ProcessMessage
    \/ AttachmentNoDownload
    \/ AttachmentCheckAbsent
    \/ AttachmentDownload
    \/ FinishMessage
    \/ EndOfPage
    \/ BeginTx
    \/ TxInsert
    \/ TxCommit

LossyNext ==
    \/ Start
    \/ ObserverGone
    \/ ObserverBack
    \/ NextChannel
    \/ FetchOk
    \/ ProcessMessage
    \/ AttachmentNoDownload
    \/ AttachmentCheckAbsent
    \/ AttachmentDownload
    \/ FinishMessage
    \/ EndOfPage
    \/ BeginTx
    \/ TxInsert
    \/ TxCommit

LossySpec == TwoRunInit /\ [][LossyNext]_vars /\ WF_vars(QuietTaskNext)

\* the task interrupted and the command invoked again afterwards, over the
\* same remote, cache and table
RecoverNext == Next \/ Crash \/ Restart

RecoverSpec == MixedInit /\ [][RecoverNext]_vars


(***************************************************************************)
(* The classification on its own: the inputs are drawn from file names and *)
(* content types around the cases the code distinguishes.                  *)
(***************************************************************************)
F_photo_PNG == <<"p","h","o","t","o",".","P","N","G">>
F_anim_gif  == <<"a","n","i","m",".","g","i","f">>
F_clip_webp == <<"c","l","i","p",".","w","e","b","p">>
F_b_JPEG    == <<"b",".","J","P","E","G">>
F_x_gif_png == <<"x",".","g","i","f",".","p","n","g">>
F_y_png_GIF == <<"y",".","p","n","g",".","G","I","F">>
F_noext     == <<"p","n","g">>
F_dot_only  == <<".","j","p","g">>
T_image_png == <<"i","m","a","g","e","/","p","n","g">>
T_image_GIF == <<"i","m","a","g","e","/","G","I","F">>
T_IMAGE_png == <<"I","M","A","G","E","/","p","n","g">>
T_text_image == <<"t","e","x","t","/","i","m","a","g","e","/">>

FilterFilenames ==
    { F_photo_PNG, F_a_jpg, F_anim_gif, F_clip_webp, F_doc_pdf, F_b_JPEG,
      F_x_gif_png, F_y_png_GIF, F_noext, F_dot_only, <<>> }
FilterContentTypes ==
    { None, Some(T_image_jpeg), Some(S_image_gif), Some(T_application_pdf),
      Some(T_image_png), Some(T_image_GIF), Some(T_IMAGE_png), Some(S_image_slash),
      Some(T_text_image), Some(<<>>) }

FilterInit ==
    /\ history = CHOOSE h \in Histories : TRUE
    /\ config = <<>>
    /\ Idle
    /\ att_filename \in FilterFilenames
    /\ att_content_type \in FilterContentTypes
    /\ att_is_image = None
    /\ now = None
    /\ start_utc = None
    /\ observed = None
    /\ other = None
    /\ observer = "up"
    /\ outages = 0

\* lines 373-381 applied to one attachment
Classify ==
    /\ att_is_image = None
    /\ att_is_image' = Some(is_image(att_filename, att_content_type))
    /\ UNCHANGED <<remoteVars, envVars, db, cache, events, requests, runs, taskVars,
                   pageVars, msgVars, counterVars, att_filename, att_content_type,
                   now, start_utc, observed, other, observer, outages,
                   lockVars, commits, downloads, command_result>>

FilterSpec == FilterInit /\ [][Classify]_vars


(***************************************************************************)
(* The cutoff of a run, lines 267-275, on its own: the date arithmetic of   *)
(* chrono (NaiveDate of the proleptic Gregorian calendar) applied to the    *)
(* instant the command reads from the clock.                                *)
(***************************************************************************)
FirstYear == 2023
LastYear == 2027

is_leap_year(y) == (y % 4 = 0 /\ y % 100 # 0) \/ y % 400 = 0

days_in_month(y, m) ==
    IF m = 2 THEN (IF is_leap_year(y) THEN 29 ELSE 28)
    ELSE IF m \in {4, 6, 9, 11} THEN 30 ELSE 31

\* the instants the clock may show: first and last day of every month, first
\* and last second of the day
Instants ==
    { i \in (FirstYear..LastYear) \X (1..12) \X (1..31) \X {0, 86399} :
        i[3] \in {1, days_in_month(i[1], i[2])} }

\* NaiveDate::from_ymd_opt: None for a date that does not exist
from_ymd_opt(year, month, day) ==
    IF month \in 1..12 /\ day \in 1..days_in_month(year, month)
    THEN Some(<<year, month, day>>)
    ELSE None

\* NaiveDate::checked_sub_months: the month count moves back, the year with
\* it, and the day is clamped to the length of the month reached
checked_sub_months_SameYear(date, months) ==
    LET month == ((date[2] - 1 - months) % 12) + 1
    IN  from_ymd_opt(date[1], month,
                     IF date[3] > days_in_month(date[1], month)
                     THEN days_in_month(date[1], month) ELSE date[3])
checked_sub_months(date, months) ==
    LET total == date[1] * 12 + (date[2] - 1) - months
        year  == total \div 12
        month == (total % 12) + 1
    IN  from_ymd_opt(year, month,
                     IF date[3] > days_in_month(year, month)
                     THEN days_in_month(year, month) ELSE date[3])

\* and_hms_opt(0, 0, 0), from_utc_datetime and timestamp(): the seconds
\* since 1970-01-01T00:00:00Z of a date's midnight
timestamp(date) ==
    LET y   == IF date[2] <= 2 THEN date[1] - 1 ELSE date[1]
        era == y \div 400
        yoe == y - era * 400
        mp  == IF date[2] > 2 THEN date[2] - 3 ELSE date[2] + 9
        doy == (153 * mp + 2) \div 5 + date[3] - 1
        doe == yoe * 365 + yoe \div 4 - yoe \div 100 + doy
    IN  (era * 146097 + doe - 719468) * 86400

\* lines 268-275; every unwrap() on None is a panic of the command
Panic == <<"panic">>
start_utc_of(instant) ==
    LET first_day_current == from_ymd_opt(instant[1], instant[2], 1)
    IN  IF first_day_current = None THEN Panic
        ELSE LET sub == checked_sub_months(first_day_current[1], 1)
                 target_month_start ==
                    IF sub # None
                    THEN from_ymd_opt(sub[1][1], sub[1][2], 1)
                    ELSE from_ymd_opt(instant[1] - 1, 12, 1)
             IN  IF target_month_start = None THEN Panic
                 ELSE <<"ok", target_month_start[1], timestamp(target_month_start[1])>>

CutoffInit ==
    /\ history = CHOOSE h \in Histories : TRUE
    /\ config = <<>>
    /\ Idle
    /\ att_filename = <<>>
    /\ att_content_type = None
    /\ att_is_image = None
    /\ now \in Instants
    /\ start_utc = None
    /\ observed = None
    /\ other = None
    /\ observer = "up"
    /\ outages = 0

ComputeCutoff ==
    /\ now # None
    /\ start_utc = None
    /\ start_utc' = start_utc_of(now)
    /\ UNCHANGED <<remoteVars, envVars, db, cache, events, requests, runs, taskVars,
                   pageVars, msgVars, counterVars, att_filename, att_content_type,
                   att_is_image, now, observed, other, observer, outages, lockVars, commits, downloads, command_result>>

CutoffSpec == CutoffInit /\ [][ComputeCutoff]_vars


(***************************************************************************)
(* Claims.                                                                 *)
(***************************************************************************)
\* the qualifying image attachments of a message, in order
RECURSIVE QualifyingPaths(_, _)
QualifyingPaths(message_id, atts) ==
    IF atts = <<>> THEN <<>>
    ELSE (IF is_image(Head(atts).filename, Head(atts).content_type)
          THEN <<relative_path_str(message_id, Head(atts))>> ELSE <<>>)
         \o QualifyingPaths(message_id, Tail(atts))

BatchEntries == { batch_data_for_db[i] : i \in 1..Len(batch_data_for_db) }
ErrorFor(message_id) ==
    <<"indexing-error", <<"Failed to process attachments for message", message_id>>>>
CommitFailed ==
    \E e \in events : e[1] = "indexing-error" /\ e[2] \in {<<"DB Error">>, <<"Task Error">>}

\* C1: once a run has started, no message older than the run's cutoff is in
\* the batch being assembled and no row of the table is older than the cutoff,
\* whatever the order of the messages in the fetched page.
C1_NothingOlderThanCutoffPersisted ==
    runs > 0 =>
        /\ \A e \in BatchEntries : e.msg.timestamp >= start_ts
        /\ \A r \in db : r.timestamp >= start_ts

\* a page held a message older than the cutoff next to one in the window,
\* and the latter was committed
C1_Witness ==
    /\ reached_older_messages
    /\ \E i \in 1..Len(page) : page[i].timestamp < start_ts
    /\ \E i \in 1..Len(page) : \E r \in db :
         r.message_id = page[i].id /\ r.timestamp >= start_ts

\* C2: a message is in the batch, and a row in the table, only with the paths
\* of all of its qualifying image attachments: no partial attachment list.
C2_NoPartialAttachmentList ==
    /\ \A e \in BatchEntries :
         e.filenames = QualifyingPaths(e.msg.id, e.msg.attachments)
    /\ \A r \in db :
         r.attachments = QualifyingPaths(r.message_id, history[r.message_id].attachments)

\* the loop over the attachments of the current message is over, no failure
\* was flagged, and a qualifying attachment has no saved path: its download
\* was answered with a non-success status (lines 488-494)
BadStatusSeen ==
    /\ pc = "att"
    /\ ~ attachment_processing_failed
    /\ attIdx > Len(CurrentMsg.attachments)
    /\ saved_filenames_for_msg # QualifyingPaths(CurrentMsg.id, CurrentMsg.attachments)

\* C3: when a download of the current message was answered with a
\* non-success status, the message is dropped from the batch, an
\* indexing-error event naming it is emitted, and the page's next message is
\* taken up.
C3_BadStatusDropsMessageAndReports ==
    [][ BadStatusSeen =>
          /\ batch_data_for_db' = batch_data_for_db
          /\ ErrorFor(CurrentMsg.id) \in events'
          /\ pc' = "msg" /\ msgs' = Tail(msgs) ]_vars

\* C4: an attachment whose content type is exactly image/gif never
\* qualifies, whatever its file name.
C4_GifContentTypeNeverQualifies ==
    (att_is_image # None /\ att_content_type = Some(S_image_gif))
        => att_is_image = Some(FALSE)

\* the last n characters of s, and its first n
LastChars(s, n) == [i \in 1..n |-> s[Len(s) - n + i]]
FirstChars(s, n) == [i \in 1..n |-> s[i]]
HasSuffixIgnoringCase(s, suffix) ==
    /\ Len(s) >= Len(suffix)
    /\ \A i \in 1..Len(suffix) :
         LastChars(s, Len(suffix))[i] \in {suffix[i]} \cup
            { UpperChars[k] : k \in {j \in 1..26 : LowerChars[j] = suffix[i]} }

\* the classification as the specification words it
QualifiesBySpec(filename, ct) ==
    \/ /\ ct # None
       /\ Len(ct[1]) >= 6 /\ FirstChars(ct[1], 6) = S_image_slash
       /\ ct[1] # S_image_gif
    \/ /\ ~ HasSuffixIgnoringCase(filename, S_dot_gif)
       /\ \E ext \in {S_dot_png, S_dot_jpg, S_dot_jpeg, S_dot_webp} :
            HasSuffixIgnoringCase(filename, ext)

\* C5: the classification of every (file name, content type) pair is
\* (content type present, starting with "image/", not exactly "image/gif") or
\* (lower-cased file name not ending in ".gif" and ending in one of ".png",
\* ".jpg", ".jpeg", ".webp"); true for ("photo.PNG", none) and
\* ("a.jpg", "image/jpeg"), false for ("doc.pdf", "application/pdf").
C5_ClassificationMatchesRule ==
    att_is_image # None =>
        /\ att_is_image = Some(QualifiesBySpec(att_filename, att_content_type))
        /\ (att_filename = F_photo_PNG /\ att_content_type = None)
              => att_is_image = Some(TRUE)
        /\ (att_filename = F_a_jpg /\ att_content_type = Some(T_image_jpeg))
              => att_is_image = Some(TRUE)
        /\ (att_filename = F_doc_pdf /\ att_content_type = Some(T_application_pdf))
              => att_is_image = Some(FALSE)

\* an upper-case file name without a content type was classified an image
C5_Witness ==
    /\ att_filename = F_photo_PNG
    /\ att_content_type = None
    /\ att_is_image = Some(TRUE)


\* C6: every step leaves each existing row of the table as it is (attachments
\* and is_used included) and the table with at most one row per message
\* identifier: committing an identifier that has a row changes nothing.
C6_OneRowPerMessageAndRowsKept ==
    [][ /\ \A r \in db : r \in db'
        /\ \A r1, r2 \in db' : r1.message_id = r2.message_id => r1 = r2 ]_vars

\* a batch was committed with an entry whose identifier already had a row
\* with another attachment list, and the row is still the old one
C6_Witness ==
    /\ pc \in {"fetch", "chan"}
    /\ ~ CommitFailed
    /\ \E e \in BatchEntries : \E r \in db :
         r.message_id = e.msg.id /\ r.attachments # e.filenames

\* C7: each non-empty page fetched in a channel records a cursor, and from
\* the second page on the cursor is strictly smaller than the one before.
C7_CursorStrictlyDecreases ==
    [][ (pc = "fetch" /\ pc' = "msg") =>
          /\ before_id' # None
          /\ before_id # None => before_id'[1] < before_id[1] ]_vars

\* a second page of a channel was fetched and its cursor is below the one
\* it was requested with
C7_Witness ==
    /\ pc = "msg"
    /\ msgs = page
    /\ \E req \in requests :
         req[1] = channel_id /\ req[2] # None /\ before_id[1] < req[2][1]

\* the sorted page a request is answered with
PageOf(req) == sort_by_timestamp(get_messages(req[1], req[2], PageLimit))
HasOlderMessage(p) == \E i \in 1..Len(p) : p[i].timestamp < start_ts

\* no request carries the cursor of a page that held a message older than
\* the cutoff
NoRequestAfterOlderPage ==
    \A req \in requests :
        (PageOf(req) # <<>> /\ HasOlderMessage(PageOf(req)))
            => <<req[1], Some(PageOf(req)[1].id)>> \notin requests

\* C8: a page holding a message older than the cutoff still has its
\* in-window batch handed to the commit, whose transaction stores every entry
\* of it, and no later page of the channel is requested.
C8_OlderPageCommittedThenStop ==
    /\ []NoRequestAfterOlderPage
    /\ [][
        /\ (pc = "msg" /\ msgs = <<>> /\ reached_older_messages
              /\ batch_data_for_db # <<>>)
             => (pc' = "commit" /\ batch_data_for_db' = batch_data_for_db)
        /\ (pc \in {"commit", "tx"} /\ pc' # "tx" /\ reached_older_messages)
             => /\ pc' = "chan" /\ chanIdx' = chanIdx + 1
                /\ (faults' = faults /\ db_lock # "poisoned") =>
                     \A e \in BatchEntries : \E r \in db' : r.message_id = e.msg.id
      ]_vars

\* the scan of a channel stopped after a page with an older message whose
\* batch is stored, while the remote holds still older messages
C8_Witness ==
    /\ pc = "chan"
    /\ reached_older_messages
    /\ batch_data_for_db # <<>>
    /\ \A e \in BatchEntries : \E r \in db : r.message_id = e.msg.id
    /\ Older(channel_id, before_id) # {}

\* C9: a 429 answer sends the task to its wait with the channel, the cursor,
\* the counters, the table and the cache unchanged, and the wait always
\* leads back to the request of the same channel with the same cursor,
\* however many 429 answers came before.
C9_RateLimitRetriesSameCursor ==
    [][ /\ (pc = "fetch" /\ rate_limits' = rate_limits + 1)
             => /\ pc' = "wait"
                /\ UNCHANGED <<channel_id, chanIdx, before_id, counterVars, db, cache>>
        /\ pc = "wait"
             => /\ pc' = "fetch"
                /\ UNCHANGED <<channel_id, chanIdx, before_id, counterVars, db, cache,
                               requests>>
      ]_vars

\* the task waits after the second 429 answer in a row to the request of a
\* later page
C9_Witness ==
    /\ pc = "wait"
    /\ rate_limits >= 2
    /\ before_id # None
    /\ <<channel_id, before_id>> \in requests

FetchErrorEvent(channel, status) ==
    <<"indexing-error", <<"Fetch Error", channel, status>>>>

\* C10: an empty page, and a failure other than 429, end the scan of the
\* channel at once (the failure with an indexing-error event); the loop
\* position only moves forward, and the next request is the first page of the
\* channel configured at the new position.
C10_EmptyPageOrErrorStopsChannel ==
    [][ /\ (pc = "fetch" /\ rate_limits' = 0
              /\ (faults' = faults + 1
                    \/ get_messages(channel_id, before_id, PageLimit) = <<>>))
             => /\ pc' = "chan" /\ chanIdx' = chanIdx + 1
                /\ faults' = faults + 1 => FetchErrorEvent(channel_id, 500) \in events'
        /\ (pc = "chan" /\ pc' = "fetch")
             => /\ chanIdx' = chanIdx
                /\ parse_u64(channel_ids[chanIdx]) = Some(channel_id')
                /\ before_id' = None
        /\ runs' = runs => chanIdx' \in {chanIdx, chanIdx + 1}
      ]_vars

\* channel "1" ended with an empty page, channel "2" with a failed request,
\* and the run finished
C10_Witness ==
    /\ pc = "done"
    /\ \E req \in requests : req[1] = <<"1">> /\ PageOf(req) = <<>>
    /\ FetchErrorEvent(<<"1">>, 500) \notin events
    /\ FetchErrorEvent(<<"2">>, 500) \in events


\* the step ends the commit of the page's batch without having committed it
CommitFails ==
    /\ pc \in {"commit", "tx"}
    /\ pc' \in {"fetch", "chan"}
    /\ (faults' = faults + 1 \/ db_lock = "poisoned")

InsertErrorEvents ==
    { <<"indexing-error", <<"DB Error">>>>, <<"indexing-error", <<"Task Error">>>> }

\* C11: a commit that fails, at the lock, at the begin of the transaction,
\* at any insert or at the commit itself, leaves the table as it was before
\* the batch, and while the transaction is open the table does not change.
C11_FailedCommitLeavesNothing ==
    [][ /\ CommitFails => db' = db
        /\ (pc = "tx" /\ pc' = "tx") => db' = db ]_vars

\* the blocking task died inside the transaction of a batch of two, and no
\* message of the batch has a row
C11_Witness ==
    /\ db_lock = "poisoned"
    /\ pc \in {"fetch", "chan"}
    /\ Len(batch_data_for_db) = 2
    /\ \A e \in BatchEntries : \A r \in db : r.message_id # e.msg.id

\* C12: a failed commit emits an indexing-error event, and every commit,
\* failed or not, is followed by the same continuation: the request of the
\* next page with the cursor recorded from the page, or the next channel when
\* the page held a message older than the cutoff.
C12_FailedCommitReportedAndScanContinues ==
    [][ /\ CommitFails => (events' \cap InsertErrorEvents) # {}
        /\ (pc \in {"commit", "tx"} /\ pc' \notin {"commit", "tx"})
             => /\ before_id' = before_id
                /\ before_id = Some(page[1].id)
                /\ channel_id' = channel_id
                /\ IF reached_older_messages
                   THEN pc' = "chan" /\ chanIdx' = chanIdx + 1
                   ELSE pc' = "fetch" /\ chanIdx' = chanIdx ]_vars

\* after a commit failed in channel "1", the next older page of the channel
\* was fetched
C12_Witness ==
    /\ CommitFailed
    /\ channel_id = <<"1">>
    /\ pc = "msg"
    /\ msgs = page
    /\ \E req \in requests : req[1] = channel_id /\ req[2] # None
    /\ \A r \in db : r.channel_id # <<"1">>

PageMessages == { page[i] : i \in 1..Len(page) }
PageDone == pc \in {"fetch", "wait", "chan", "done"} /\ page # <<>>

\* C13 as claimed: every fetched non-empty page has had exactly one commit by
\* the time its processing is over.
C13_EveryPageCommittedOnce ==
    PageDone => commits = 1

\* C13 as amended: the batch holds only messages of the page last fetched;
\* no commit has begun while the page is being processed, one has while the
\* transaction is open, and when the processing of the page is over there was
\* exactly one commit if the batch is not empty and none if it is empty.
C13_OneCommitPerNonEmptyBatch ==
    /\ \A e \in BatchEntries : e.msg \in PageMessages
    /\ pc \in {"msg", "att", "commit"} => commits = 0
    /\ pc = "tx" => commits = 1
    /\ PageDone => commits = (IF batch_data_for_db # <<>> THEN 1 ELSE 0)

\* the second page of a channel was committed, once, with a batch of its own
C13_Witness ==
    /\ PageDone
    /\ commits = 1
    /\ batch_data_for_db # <<>>
    /\ ~ CommitFailed
    /\ \A e \in BatchEntries : \E r \in db : r.message_id = e.msg.id
    /\ \E r \in db : \A e \in BatchEntries :
         r.message_id # e.msg.id /\ r.channel_id = e.msg.channel_id

\* C14: the lock is held, and a transaction open, only between the begin and
\* the end of one batch's transaction: never while the task requests a page,
\* waits after a 429 answer, works on a message or an attachment, or is
\* between channels.
C14_LockOnlyDuringTransaction ==
    /\ pc # "tx" => (db_lock # "held" /\ tx = None)
    /\ pc = "tx" => (db_lock = "held" /\ tx # None)

\* a transaction committed rows, and the task is at the request of the next
\* page with the lock free
C14_Witness ==
    /\ pc = "fetch"
    /\ commits = 1
    /\ db_lock = "free"
    /\ \E e \in BatchEntries : \E r \in db : r.message_id = e.msg.id


\* the positions of the configured list that hold the channel
PositionsOf(channel) ==
    { k \in 1..Len(channel_ids) : parse_u64(channel_ids[k]) = Some(channel) }

\* every request made so far is for a channel at or before the position of
\* the for loop
RequestsUpToPosition ==
    \A req \in requests : \E k \in PositionsOf(req[1]) : k <= chanIdx

\* C15: the position in the configured list never moves back during a run;
\* every page request and every row committed is for the channel at the
\* current position, so nothing of a later channel is requested or stored
\* before the scan of the current one has stopped.
C15_ChannelsInConfiguredOrder ==
    /\ []RequestsUpToPosition
    /\ [][ /\ \A req \in requests' \ requests : chanIdx \in PositionsOf(req[1])
           /\ \A r \in db' \ db : chanIdx \in PositionsOf(r.channel_id)
           /\ runs' = runs => chanIdx' >= chanIdx ]_vars

\* the run is over, pages of both channels were requested and rows of both
\* are stored
C15_Witness ==
    /\ pc = "done"
    /\ \A c \in {<<"1">>, <<"2">>} :
         /\ \E req \in requests : req[1] = c
         /\ \E r \in db : r.channel_id = c

InvalidChannelEvent(str) == <<"indexing-error", <<"Invalid channel ID", str>>>>

\* at the end of the run every configured identifier was either reported
\* as invalid or had its first page requested
AllChannelsTaken ==
    pc = "done" =>
        \A k \in 1..Len(channel_ids) :
            IF parse_u64(channel_ids[k]) = None
            THEN InvalidChannelEvent(channel_ids[k]) \in events
            ELSE <<parse_u64(channel_ids[k])[1], None>> \in requests

\* C16: an identifier that does not parse is reported by an indexing-error
\* event, no page is requested for it, and the loop goes on with the next
\* identifier; at the end of the run every identifier of the list that parses
\* has had its pages requested, those after the invalid one included.
C16_InvalidChannelSkipped ==
    /\ []AllChannelsTaken
    /\ [][ (pc = "chan" /\ chanIdx <= Len(channel_ids)
              /\ parse_u64(channel_ids[chanIdx]) = None)
             => /\ InvalidChannelEvent(channel_ids[chanIdx]) \in events'
                /\ requests' = requests
                /\ pc' = "chan"
                /\ chanIdx' = chanIdx + 1 ]_vars

\* the run is over: "x" was reported, and the channels before and after it
\* were scanned
C16_Witness ==
    /\ pc = "done"
    /\ faults = 0
    /\ channel_ids = <<C_1, C_x, C_2>>
    /\ InvalidChannelEvent(C_x) \in events
    /\ <<C_1, None>> \in requests
    /\ <<C_2, None>> \in requests

NoChannelsEvent == <<"indexing-status", <<"No channels selected">>>>

\* C17: with an empty configured list no task is ever started, no page is
\* requested, the table and the cache stay empty, nothing is downloaded, and
\* a command that returned success has emitted the one indexing-status event.
C17_EmptyConfigStartsNothing ==
    config = <<>> =>
        /\ runs = 0
        /\ pc = "idle"
        /\ requests = {}
        /\ db = {}
        /\ DOMAIN cache = {}
        /\ DOMAIN downloads = {}
        /\ command_result = Some("Ok") => events = {NoChannelsEvent}
        /\ events \subseteq {NoChannelsEvent}

\* the command returned success on an empty list
C17_Witness ==
    /\ config = <<>>
    /\ command_result = Some("Ok")
    /\ events = {NoChannelsEvent}
    /\ runs = 0

\* the attachments of a message and the path of each
PathsOf(msg) ==
    { relative_path_str(msg.id, msg.attachments[i]) : i \in 1..Len(msg.attachments) }

C19_RerunDownloadsAndStoresNothing ==
    [][ runs >= 2 => (downloads' = downloads /\ cache' = cache /\ db' = db) ]_vars

\* the second run is over; it found images and handed messages to commits
C19_Witness ==
    /\ runs = 2
    /\ pc = "done"
    /\ total_images_saved_or_found > 0
    /\ total_messages_processed_for_db > 0
    /\ db # {}

\* C20: an interruption leaves the table as the last commit left it: the
\* rows of every batch committed before stay, no row of the open transaction
\* or of a batch not yet handed over appears; a commit that succeeds stores
\* the whole batch.
C20_CrashKeepsCommittedBatchesOnly ==
    [][ /\ pc' = "crashed" => db' = db
        /\ \A r \in db : r \in db'
        /\ (pc = "tx" /\ pc' = "tx") => db' = db
        /\ (pc = "tx" /\ pc' \in {"fetch", "chan"} /\ faults' = faults)
             => /\ db' = insert_batch(db, batch_data_for_db)
                /\ \A e \in BatchEntries : \E r \in db' : r.message_id = e.msg.id
      ]_vars

\* the run was interrupted after a commit: the table holds rows, and a
\* message whose images are all in the cache has none
C20_Witness ==
    /\ pc = "crashed"
    /\ db # {}
    /\ \E m \in MsgIds :
         /\ QualifyingPaths(m, history[m].attachments) # <<>>
         /\ \A p \in PathsOf(Message(m)) : p \in DOMAIN cache => cache[p] = "complete"
         /\ \A i \in 1..Len(QualifyingPaths(m, history[m].attachments)) :
              QualifyingPaths(m, history[m].attachments)[i] \in DOMAIN cache
         /\ \A r \in db : r.message_id # m

\* the qualifying attachments of a list, in the list's order
QualifyingAttachments(atts) ==
    SelectSeq(atts, LAMBDA a : is_image(a.filename, a.content_type))

\* C21: a row's attachments list has one path
\* "cached/<message_id>_<attachment_id>.<ext>" for each qualifying attachment
\* of its message, in the message's order, and nothing else; only paths of
\* qualifying attachments are ever requested.
C21_OnePathPerQualifyingImage ==
    /\ \A r \in db :
         LET q == QualifyingAttachments(history[r.message_id].attachments)
         IN  /\ Len(r.attachments) = Len(q)
             /\ \A i \in 1..Len(q) :
                  r.attachments[i] = relative_path_str(r.message_id, q[i])
    /\ \A p \in DOMAIN downloads :
         \E m \in MsgIds :
            \E i \in 1..Len(QualifyingAttachments(history[m].attachments)) :
               p = relative_path_str(m, QualifyingAttachments(history[m].attachments)[i])

\* C22: every row and every batch entry carries at least one path; a message
\* without a qualifying attachment is in no batch and in no row, and no
\* indexing-error event names it.
C22_NoRowWithoutAttachment ==
    /\ \A r \in db : r.attachments # <<>>
    /\ \A e \in BatchEntries : e.filenames # <<>>
    /\ \A m \in MsgIds :
         QualifyingPaths(m, history[m].attachments) = <<>> =>
            /\ ErrorFor(m) \notin events
            /\ \A e \in BatchEntries : e.msg.id # m
            /\ \A r \in db : r.message_id # m

\* a message of the window without a qualifying attachment has been worked
\* off while another message of its page went into the batch
C22_Witness ==
    /\ pc = "msg"
    /\ batch_data_for_db # <<>>
    /\ \E i \in 1..Len(page) :
         /\ page[i].timestamp >= start_ts
         /\ page[i].attachments # <<>>
         /\ QualifyingPaths(page[i].id, page[i].attachments) = <<>>
         /\ \A j \in 1..Len(msgs) : msgs[j].id # page[i].id
         /\ \A e \in BatchEntries : e.msg.id # page[i].id
         /\ ErrorFor(page[i].id) \notin events

\* the messages of the current page that the loop of lines 358-523 has
\* already worked off
WorkedOff ==
    { page[i] : i \in { j \in 1..Len(page) :
          /\ \A k \in 1..Len(msgs) : msgs[k].id # page[j].id } }

\* C25: the cutoff test is made message by message: every message of the
\* current page that is in the window, has a qualifying attachment and met no
\* attachment failure (all its qualifying files are in the cache and no
\* indexing-error names it) is in the page's batch once the loop has passed
\* it, also when older messages came before it in the page.
C25_CutoffFilterIsPerMessage ==
    (runs > 0 /\ pc \in {"msg", "att", "dl", "tx"}) =>
        \A msg \in WorkedOff :
           ( /\ msg.timestamp >= start_ts
             /\ QualifyingPaths(msg.id, msg.attachments) # <<>>
             /\ \A i \in 1..Len(QualifyingPaths(msg.id, msg.attachments)) :
                  QualifyingPaths(msg.id, msg.attachments)[i] \in DOMAIN cache
             /\ ErrorFor(msg.id) \notin events )
           => \E e \in BatchEntries :
                 e.msg = msg /\ e.filenames = QualifyingPaths(msg.id, msg.attachments)

\* the loop is through a page in which an older message stood before a
\* message of the window, and the latter is in the batch
C25_Witness ==
    /\ pc = "msg" /\ msgs = <<>>
    /\ \E i, j \in 1..Len(page) :
         /\ i < j
         /\ page[i].timestamp < start_ts
         /\ page[j].timestamp >= start_ts
         /\ \E e \in BatchEntries : e.msg = page[j]

CompleteEvents == { e \in events : e[1] = "indexing-complete" }

\* C27: the counter of processed messages is the number of (message, paths)
\* pairs the run has pushed onto batches, whatever became of the commits,
\* and the indexing-complete event carries that number.
C27_CompleteCountsBatchedPairs ==
    /\ total_messages_processed_for_db = pairs_batched
    /\ \A e \in CompleteEvents : pc = "done" /\ e[2] = <<pairs_batched>>
    /\ (pc = "done" /\ runs > 0) => CompleteEvents # {}

\* a run has finished and reports more pairs than the table has rows: a
\* commit failed or an insert was ignored
C27_Witness ==
    /\ pc = "done"
    /\ <<"indexing-complete", <<pairs_batched>>>> \in events
    /\ pairs_batched > Cardinality(db)

\* the days from 1970-01-01 to a date, counted year by year and month by month
RECURSIVE DaysBeforeYear(_)
DaysBeforeYear(y) ==
    IF y <= 1970 THEN 0
    ELSE DaysBeforeYear(y - 1) + (IF is_leap_year(y - 1) THEN 366 ELSE 365)
RECURSIVE DaysBeforeMonth(_, _)
DaysBeforeMonth(y, m) ==
    IF m <= 1 THEN 0 ELSE DaysBeforeMonth(y, m - 1) + days_in_month(y, m - 1)
MidnightUtc(date) ==
    (DaysBeforeYear(date[1]) + DaysBeforeMonth(date[1], date[2]) + date[3] - 1) * 86400
PrecedingMonthStart(instant) ==
    IF instant[2] = 1 THEN <<instant[1] - 1, 12, 1>>
    ELSE <<instant[1], instant[2] - 1, 1>>

\* C23: whatever the year, month, day and time of day of the start, the
\* computation ends without panic with 00:00:00 UTC of the 1st of the
\* preceding calendar month, which for January is December 1 of the year
\* before.
C23_CutoffIsFirstOfPrecedingMonth ==
    start_utc # None =>
        /\ start_utc[1] = "ok"
        /\ start_utc[2] = PrecedingMonthStart(now)
        /\ start_utc[3] = MidnightUtc(PrecedingMonthStart(now))

\* the clock showed the last second of a January 31
C23_Witness ==
    /\ start_utc # None
    /\ now[2] = 1 /\ now[3] = 31 /\ now[4] = 86399
    /\ start_utc[2] = <<now[1] - 1, 12, 1>>

RunActive == runs > 0 /\ pc \notin {"idle", "done"}
RunComplete == pc = "done" /\ CompleteEvents # {}

\* C26: under fair scheduling of the task, every started run reaches the end
\* of the channel list and emits indexing-complete, whatever failures were
\* met; the event is emitted at that step only, once per run.
C26_EveryRunCompletes ==
    /\ RunActive ~> RunComplete
    /\ [][ CompleteEvents' # CompleteEvents =>
              \/ CompleteEvents' = {}
              \/ /\ pc = "chan" /\ pc' = "done" /\ chanIdx > Len(channel_ids)
                 /\ CompleteEvents = {}
                 /\ Cardinality(CompleteEvents') = 1 ]_vars

\* a run has completed although the remote limited the rate, a failure was
\* injected and an error was reported
C26_Witness ==
    /\ RunComplete
    /\ faults = MaxFaults
    /\ \E e \in events : e[1] = "indexing-error" /\ e[2][1] # "Invalid channel ID"
    /\ <<"indexing-status", <<"Rate limited, waiting...">>>> \in events

\* the rows the open transaction has inserted and not committed
UncommittedRows == IF tx # None THEN tx[1] \ db ELSE {}

\* the rows the current batch adds to the table
NewRowsOfBatch == insert_batch(db, batch_data_for_db) \ db

\* C28: get_indexed_messages returns the committed table and no row of a
\* transaction in progress, and the committed table grows by all new rows of
\* a page's batch in one step: the reader sees all of a batch's new rows or
\* none of them.
C28_ReaderSeesWholeBatches ==
    [][ /\ observed' # observed =>
              /\ observed'[1] = db
              /\ observed'[1] \cap UncommittedRows = {}
        /\ db' # db =>
              /\ db' = db \cup NewRowsOfBatch
              /\ \A seen \in {db, db'} :
                    seen \cap NewRowsOfBatch \in {{}, NewRowsOfBatch} ]_vars

\* the reader ran between the commits of two batches: it has seen the rows of
\* the first and none of the second, which has two rows
C28_Witness ==
    /\ observed # None
    /\ observed[1] # {}
    /\ observed[1] # db
    /\ Cardinality(db \ observed[1]) >= 2

\* C30: every path recorded in a row of the table names a file of the cache
\* that holds the complete body of the attachment, also in a run that
\* follows an interrupted one.
C30_StoredPathsNameCompleteFiles ==
    \A r \in db :
       \A i \in 1..Len(r.attachments) :
          /\ r.attachments[i] \in DOMAIN cache
          /\ cache[r.attachments[i]] = "complete"

\* the rows a run without failures leaves in an empty table: one for every
\* message of a configured channel that is in the window and has a qualifying
\* attachment
ConfiguredChannels ==
    { parse_u64(config[i])[1] : i \in { j \in 1..Len(config) : parse_u64(config[j]) # None } }
SingleRunRows ==
    { row_of([msg |-> Message(m),
              filenames |-> QualifyingPaths(m, history[m].attachments)]) :
        m \in { n \in MsgIds :
                  /\ ChannelOfMsg(n) \in ConfiguredChannels
                  /\ history[n].timestamp >= CutoffTs
                  /\ QualifyingPaths(n, history[n].attachments) # <<>> } }
AllTasksDone == pc = "done" /\ (other # None => other[1].pc = "done")

\* C29: with two tasks interleaved and no failure the table never holds two
\* rows of one message identifier, and when every task has finished it holds
\* the rows a single run leaves.
C29_TwoRunsLeaveSingleRunRows ==
    /\ \A r1, r2 \in db : r1.message_id = r2.message_id => r1 = r2
    /\ AllTasksDone => db = SingleRunRows

\* two tasks have finished and one attachment was requested by both: each
\* found the file absent before the other had written it
C29_Witness ==
    /\ other # None
    /\ AllTasksDone
    /\ db # {}
    /\ \E p \in DOMAIN downloads : downloads[p] = 2

\* what a run leaves when every emission succeeds and nothing fails,
\* computed from the remote history: the requests, page by page until a
\* page is empty or holds a message older than the cutoff, ...
RECURSIVE RefChannelRequests(_, _)
RefChannelRequests(channel, before) ==
    LET p == PageOf(<<channel, before>>)
    IN  {<<channel, before>>} \cup
        (IF p = <<>> \/ (\E i \in 1..Len(p) : p[i].timestamp < CutoffTs) THEN {}
         ELSE RefChannelRequests(channel, Some(p[1].id)))
RefRequests == UNION { RefChannelRequests(c, None) : c \in ConfiguredChannels }
\* ... one download and one complete file for every qualifying attachment of
\* a message of the window, and the rows of SingleRunRows
RefPaths ==
    UNION { { r.attachments[i] : i \in 1..Len(r.attachments) } : r \in SingleRunRows }
RefCache == [p \in RefPaths |-> "complete"]
RefDownloads == [p \in RefPaths |-> 1]

\* C24: a run during which emissions fail still comes to its end, and at its
\* end the requests sent, the downloads made, the files of the cache and the
\* rows of the table are those of the run in which every emission succeeds.
C24_EmissionOutcomeDoesNotChangeIngestion ==
    /\ RunActive ~> pc = "done"
    /\ [](pc = "done" =>
            /\ requests = RefRequests
            /\ downloads = RefDownloads
            /\ cache = RefCache
            /\ db = SingleRunRows)

\* a run has finished although the observer had gone: some events reached
\* it, the indexing-complete event did not
C24_Witness ==
    /\ pc = "done"
    /\ observer = "gone"
    /\ events # {}
    /\ CompleteEvents = {}
    /\ db = SingleRunRows /\ db # {}

=============================================================================
